---- MODULE Spec2Model ----
(***************************************************************************)
(* A model of the FX5 SLMP client (src/fx5.py): the numeric/ASCII codec,    *)
(* the four request frames, the response parser inside FX5.__send, the      *)
(* transport (lazy open, lock, close on failure) and the connection         *)
(* registry, together with a controller that stores what is written to it.  *)
(*                                                                          *)
(* Conventions.  A Python str is a sequence of one-character strings        *)
(* (<<"D","5","0","0">> is 'D500'); a Python bytes object or list of ints   *)
(* is a sequence of integers; Python index i is TLA+ index i+1 (see Py).    *)
(* A Python value is PyInt(n), PyStr(s), PyBool(b) or PyNone.  The outcome  *)
(* of a call is Ok(v) or Raise(e, code, msg).                               *)
(***************************************************************************)
EXTENDS Integers, Sequences, FiniteSets, TLC

\* ------------------------------------------------------------------------
\* Python values and outcomes
\* ------------------------------------------------------------------------

None == [k |-> "none"]

Ok(v) == [k |-> "ok", v |-> v]

\* an exception of class e with message msg (code: the error code it carries)
Raise(e, code, msg) == [k |-> "exc", e |-> e, code |-> code, msg |-> msg]

IsOk(o) == o.k = "ok"

IsExc(o) == o.k = "exc"

PyInt(n) == [t |-> "int", v |-> n]

PyStr(s) == [t |-> "str", s |-> s]

PyBool(b) == [t |-> "bool", b |-> b]

PyNone == [t |-> "None"]

\* seq[i] with Python's 0-based index i
Py(seq, i) == seq[i + 1]

\* ------------------------------------------------------------------------
\* Python integer operators on unbounded two's-complement integers
\* ------------------------------------------------------------------------

RECURSIVE BitAnd(_, _)
BitAnd(a, b) ==
    IF a = 0 \/ b = 0 THEN 0
    ELSE IF a = -1 THEN b
    ELSE IF b = -1 THEN a
    ELSE (a % 2) * (b % 2) + 2 * BitAnd(a \div 2, b \div 2)

RECURSIVE BitOr(_, _)
BitOr(a, b) ==
    IF a = 0 THEN b
    ELSE IF b = 0 THEN a
    ELSE IF a = -1 \/ b = -1 THEN -1
    ELSE (IF a % 2 = 1 \/ b % 2 = 1 THEN 1 ELSE 0) + 2 * BitOr(a \div 2, b \div 2)

RECURSIVE Pow2(_)
Pow2(n) == IF n = 0 THEN 1 ELSE 2 * Pow2(n - 1)

ShiftL(a, n) == a * Pow2(n)

ShiftR(a, n) == a \div Pow2(n)

\* ------------------------------------------------------------------------
\* Text: format(n, '#04x'), int(str), str.split
\* ------------------------------------------------------------------------

HexDigits == <<"0","1","2","3","4","5","6","7","8","9","a","b","c","d","e","f">>

RECURSIVE HexOf(_)
HexOf(n) == IF n < 16 THEN <<HexDigits[n + 1]>>
            ELSE HexOf(n \div 16) \o <<HexDigits[(n % 16) + 1]>>

RECURSIVE ZeroPad(_, _)
ZeroPad(s, w) == IF Len(s) >= w THEN s ELSE ZeroPad(<<"0">> \o s, w)

\* format(n, '#04x'): sign, "0x", lower-case hex digits, zero-padded to a
\* total width of 4
Format04x(n) ==
    IF n >= 0 THEN <<"0", "x">> \o ZeroPad(HexOf(n), 2)
    ELSE <<"-", "0", "x">> \o ZeroPad(HexOf(-n), 1)

DecDigits == <<"0","1","2","3","4","5","6","7","8","9">>

IsDigit(c) == \E i \in 1..10 : DecDigits[i] = c

DigitVal(c) == (CHOOSE i \in 1..10 : DecDigits[i] = c) - 1

RECURSIVE DecVal(_)
DecVal(s) == IF s = <<>> THEN 0
             ELSE 10 * DecVal(SubSeq(s, 1, Len(s) - 1)) + DigitVal(s[Len(s)])

AllDigits(s) == s # <<>> /\ \A i \in 1..Len(s) : IsDigit(s[i])

\* int(s) for a str s: an optional sign and decimal digits (surrounding
\* white space and digit-group underscores, which int() also takes, are not
\* among the inputs of this model); anything else is a ValueError
IntOfStr(s) ==
    IF AllDigits(s) THEN Ok(DecVal(s))
    ELSE IF s # <<>> /\ s[1] = "-" /\ AllDigits(Tail(s)) THEN Ok(0 - DecVal(Tail(s)))
    ELSE IF s # <<>> /\ s[1] = "+" /\ AllDigits(Tail(s)) THEN Ok(DecVal(Tail(s)))
    ELSE Raise("ValueError", 0, "invalid literal for int()")

\* int(value) for a value that is an int already or a str
IntOf(value) == IF value.t = "int" THEN Ok(value.v) ELSE IntOfStr(value.s)

\* s.split(sep) for a one-character separator: the pieces between separators
RECURSIVE Split(_, _)
Split(s, sep) ==
    IF \A i \in 1..Len(s) : s[i] # sep THEN <<s>>
    ELSE LET p == CHOOSE i \in 1..Len(s) : s[i] = sep /\ \A j \in 1..(i - 1) : s[j] # sep
         IN  <<SubSeq(s, 1, p - 1)>> \o Split(SubSeq(s, p + 1, Len(s)), sep)

\* ------------------------------------------------------------------------
\* Numeric/ASCII codec (FX5.to_int16_signed .. FX5.to_ascii)
\* ------------------------------------------------------------------------

\* variant: the sign bit dropped
to_int16_unsign(upper, lower) == BitAnd(ShiftL(upper, 8) + lower, 32767)

\* num = (upper<<8) + lower; return -(num & 0x8000) | (num & 0x7fff)
to_int16_signed(upper, lower) ==
    LET num == ShiftL(upper, 8) + lower
    IN  BitOr(0 - BitAnd(num, 32768), BitAnd(num, 32767))

to_int16_unsigned(upper, lower) == ShiftL(upper, 8) + lower

\* variant: the high byte first
to_2bite_high_first(num) ==
    IF num < 0 \/ num > 65535 THEN Raise("struct.error", 0, "ushort format requires 0 <= number <= 65535")
    ELSE Ok(<<num \div 256, num % 256>>)

\* struct.pack('H', num) then struct.unpack('BB', ...): the two bytes of an
\* unsigned short in the machine's byte order (little-endian on the x86 and
\* ARM hosts the client runs on: low byte first, as the tests expect);
\* struct.error when num is not in 0..65535
to_2bite_signed(num) ==
    IF num < 0 \/ num > 65535 THEN Raise("struct.error", 0, "ushort format requires 0 <= number <= 65535")
    ELSE Ok(<<num % 256, num \div 256>>)

\* the printable ASCII characters, code 32 first (code 96 is written <grave>)
AsciiChars == <<
    " ", "!", "\"", "#", "$", "%", "&", "'", "(", ")", "*", "+", ",", "-", ".", "/",
    "0", "1", "2", "3", "4", "5", "6", "7", "8", "9", ":", ";", "<", "=", ">", "?",
    "@", "A", "B", "C", "D", "E", "F", "G", "H", "I", "J", "K", "L", "M", "N", "O",
    "P", "Q", "R", "S", "T", "U", "V", "W", "X", "Y", "Z", "[", "\\", "]", "^", "_",
    "<grave>", "a", "b", "c", "d", "e", "f", "g", "h", "i", "j", "k", "l", "m", "n", "o",
    "p", "q", "r", "s", "t", "u", "v", "w", "x", "y", "z", "{", "|", "}", "~" >>

IsAscii(c) == \E i \in 1..Len(AsciiChars) : AsciiChars[i] = c

\* ord(c) and chr(n), for the printable ASCII characters
Ord(c) == (CHOOSE i \in 1..Len(AsciiChars) : AsciiChars[i] = c) + 31

Chr(n) == AsciiChars[n - 31]

\* (chr(upper) if upper != 0 else '') + (chr(lower) if lower != 0 else '')
to_string(upper, lower) ==
    (IF upper # 0 THEN <<Chr(upper)>> ELSE <<>>) \o (IF lower # 0 THEN <<Chr(lower)>> ELSE <<>>)

to_ascii(str_data) ==
    IF Len(str_data) = 2 THEN <<Ord(str_data[1]), Ord(str_data[2])>>
    ELSE IF Len(str_data) = 1 THEN <<Ord(str_data[1]), 0>>
    ELSE <<0, 0>>

\* ------------------------------------------------------------------------
\* Error table (FX5.__error): the codes that have a description
\* ------------------------------------------------------------------------

ErrorTable ==
    { 6432, 6433, 4398, 4404, 8544, 8784, 49170, 49171, 49173, 49176, 49184,
      49188, 49189, 49191, 49193, 49205, 49334, 49374, 49570, 49580, 49581,
      49583, 49584, 49585, 49587, 49588, 49594, 49606, 49612, 49613, 49616,
      49619, 50176, 50177, 50180, 50181, 50192, 50193, 50199, 50225, 52960,
      52961, 52962, 53008, 53024, 53040, 53041, 53104, 53105, 49232, 49233,
      49234, 49235, 49236, 49238, 49240, 49241, 49243, 49244, 49247, 49248,
      49249, 49263, 49368, 49664, 49665, 49668, 51216, 51221, 51222 }

\* the description of a code: its table entry, or "unknown error"
ErrorMsg(code) == IF code \in ErrorTable THEN "table" ELSE "unknown error"

\* ------------------------------------------------------------------------
\* Frame builder (the msg lists of __read_m, __write_m, __read_d, __write_d)
\* ------------------------------------------------------------------------

\* variant: an index of two bytes, the third always 0
DevnoBytesShort(devno) ==
    << BitAnd(devno, 255), BitAnd(ShiftR(devno, 8), 255), 0 >>

\* devno & 0xff, devno>>8 & 0xff, devno>>16 & 0xff
DevnoBytes(devno) ==
    << BitAnd(devno, 255), BitAnd(ShiftR(devno, 8), 255), BitAnd(ShiftR(devno, 16), 255) >>

\* 50 00 | 00 | FF | FF 03 | 00 | 0C 00 | 00 00 | 01 04 | 01 00 | devno | 90 | 01 00
MsgReadM(devno) ==
    <<80, 0, 0, 255, 255, 3, 0, 12, 0, 0, 0, 1, 4, 1, 0>> \o DevnoBytes(devno) \o <<144, 1, 0>>

\* on == True holds of the int 1 (and of the bool True) only
EqTrue(on) == on = 1

\* ... | 0D 00 | 00 00 | 01 14 | 01 00 | devno | 90 | 01 00 | 10 or 00
MsgWriteM(devno, on) ==
    <<80, 0, 0, 255, 255, 3, 0, 13, 0, 0, 0, 1, 20, 1, 0>> \o DevnoBytes(devno)
        \o <<144, 1, 0>> \o << IF EqTrue(on) THEN 16 ELSE 0 >>

\* ... | 0C 00 | 00 00 | 01 04 | 00 00 | devno | A8 | 01 00
MsgReadD(devno) ==
    <<80, 0, 0, 255, 255, 3, 0, 12, 0, 0, 0, 1, 4, 0, 0>> \o DevnoBytes(devno) \o <<168, 1, 0>>

\* ... | 0E 00 | 00 00 | 01 14 | 00 00 | devno | A8 | 01 00 | low high
MsgWriteD(devno, tuple_data) ==
    <<80, 0, 0, 255, 255, 3, 0, 14, 0, 0, 0, 1, 20, 0, 0>> \o DevnoBytes(devno)
        \o <<168, 1, 0>> \o <<tuple_data[1], tuple_data[2]>>

\* the payload of __write_d: to_ascii(str(data)) in ASCII mode (len(data) of
\* an int is a TypeError), to_2bite_signed(int(data)) otherwise
TupleData(data, as_ascii) ==
    IF as_ascii
    THEN IF data.t # "str" THEN Raise("TypeError", 0, "object of type int has no len()")
         ELSE IF Len(data.s) > 2 THEN Raise("Exception", 0, "you can write only 2 words")
         ELSE Ok(to_ascii(data.s))
    ELSE LET n == IntOf(data)
         IN  IF IsExc(n) THEN n ELSE to_2bite_signed(n.v)

\* ------------------------------------------------------------------------
\* Response parser (FX5.__send after the exchange) and the public read/write
\* ------------------------------------------------------------------------

\* variant: an error code taken with the short responses, into the handler
TooShortOrError(result) ==
    Len(result) < 11 \/ (Py(result, 9) # 0 /\ Py(result, 10) # 0)

\* the check of __send on the received bytes: fewer than 11 is an error
TooShort(result) == Len(result) < 11

\* the text of the connection error (the code appends len(result) to it)
ConnectionErrorMsg == "Connection error. It already may connect other device."

\* format(result[9], '#04x') != '0x00' and format(result[10], '#04x') != '0x00'
ErrorIndicated(result) ==
    /\ Format04x(Py(result, 9)) # <<"0", "x", "0", "0">>
    /\ Format04x(Py(result, 10)) # <<"0", "x", "0", "0">>

\* variant: the declared length taken as the payload length
PayloadLengthDeclared(result) == to_int16_signed(Py(result, 8), Py(result, 7))

\* length = to_int16_signed(result[8], result[7]) - 2
PayloadLength(result) == to_int16_signed(Py(result, 8), Py(result, 7)) - 2

\* __send from "check errors" on, for a result of at least 11 bytes: the
\* error code as an exception, or the list re of range(length) bytes from
\* result[11] (an IndexError when the result ends before them)
send_parse(result) ==
    IF ErrorIndicated(result)
    THEN LET res_u16bit == to_int16_unsigned(Py(result, 10), Py(result, 9))
         IN  Raise("Exception", res_u16bit, ErrorMsg(res_u16bit))
    ELSE LET length == PayloadLength(result)
         IN  IF length > 0 /\ 11 + length > Len(result)
             THEN Raise("IndexError", 0, "index out of range")
             ELSE Ok([i \in 1..(IF length > 0 THEN length ELSE 0) |-> Py(result, 11 + (i - 1))])

\* variant: any nonzero byte read as True
read_m_nonzero(re) ==
    IF Len(re) < 1 THEN Raise("IndexError", 0, "list index out of range")
    ELSE Ok(PyBool(Py(re, 0) # 0))

\* __read_m after __send: format(re[0], '#04x') == '0x10'
read_m_result(re) ==
    IF Len(re) < 1 THEN Raise("IndexError", 0, "list index out of range")
    ELSE Ok(PyBool(Format04x(Py(re, 0)) = <<"0", "x", "1", "0">>))

\* variant: the two bytes of a word taken high byte first
read_d_swapped(re, as_ascii) ==
    IF Len(re) < 2 THEN Raise("IndexError", 0, "list index out of range")
    ELSE IF as_ascii THEN Ok(PyStr(to_string(Py(re, 0), Py(re, 1))))
    ELSE Ok(PyInt(to_int16_signed(Py(re, 0), Py(re, 1))))

\* __read_d after __send: to_string(re[0], re[1]) or to_int16_signed(re[1], re[0])
read_d_result(re, as_ascii) ==
    IF Len(re) < 2 THEN Raise("IndexError", 0, "list index out of range")
    ELSE IF as_ascii THEN Ok(PyStr(to_string(Py(re, 0), Py(re, 1))))
    ELSE Ok(PyInt(to_int16_signed(Py(re, 1), Py(re, 0))))

\* A public call: [op, devno, value, as_ascii], op "read" or "write".
ReadCall(devno, as_ascii) ==
    [op |-> "read", devno |-> devno, value |-> PyNone, as_ascii |-> as_ascii]

WriteCall(devno, value, as_ascii) ==
    [op |-> "write", devno |-> devno, value |-> value, as_ascii |-> as_ascii]

\* read and write up to their call of __send: dev_type = devno[0],
\* dev_no = int(devno[1:]), then the frame of the device type; the result is
\* the packed frame, or the exception raised before any I/O
Request(call) ==
    IF call.devno = <<>> THEN Raise("IndexError", 0, "string index out of range")
    ELSE LET dev_type == call.devno[1]
             dev_no == IntOfStr(Tail(call.devno))
         IN  IF IsExc(dev_no) THEN dev_no
             ELSE IF dev_type = "M"
             THEN IF call.op = "read" THEN Ok(MsgReadM(dev_no.v))
                  ELSE LET on == IntOf(call.value)
                       IN  IF IsExc(on) THEN on ELSE Ok(MsgWriteM(dev_no.v, on.v))
             ELSE IF dev_type = "D"
             THEN IF call.op = "read" THEN Ok(MsgReadD(dev_no.v))
                  ELSE LET tuple_data == TupleData(call.value, call.as_ascii)
                       IN  IF IsExc(tuple_data) THEN tuple_data
                           ELSE Ok(MsgWriteD(dev_no.v, tuple_data.v))
             ELSE Raise("Exception", 0, "Unsupported device type")

\* read and write after __send returned the list re
Reply(call, re) ==
    IF call.op = "write" THEN Ok(PyNone)
    ELSE IF call.devno[1] = "M" THEN read_m_result(re)
    ELSE read_d_result(re, call.as_ascii)

\* ------------------------------------------------------------------------
\* The controller: one bit or word per device, written and read back by the
\* frames above (the response layout is the sample in __send)
\* ------------------------------------------------------------------------

\* D0 00 00 FF FF 03 00 | length (end code and payload) | end code | payload
Response(endcode, payload) ==
    <<208, 0, 0, 255, 255, 3, 0>> \o <<(2 + Len(payload)) % 256, (2 + Len(payload)) \div 256>>
        \o <<endcode % 256, endcode \div 256>> \o payload

FrameCommand(frame) == Py(frame, 11) + 256 * Py(frame, 12)

FrameSubcommand(frame) == Py(frame, 13) + 256 * Py(frame, 14)

\* the device a frame addresses: <<device code, index>>
FrameDevice(frame) ==
    <<Py(frame, 18), Py(frame, 15) + 256 * Py(frame, 16) + 65536 * Py(frame, 17)>>

MemGet(mem, dev) == IF dev \in DOMAIN mem THEN mem[dev] ELSE 0

MemSet(mem, dev, v) == [d \in (DOMAIN mem) \cup {dev} |-> IF d = dev THEN v ELSE mem[d]]

\* the controller's memory after a frame: a write stores its payload (a bit
\* device the high nibble of its byte, a word device low + 256 * high)
ControllerMem(mem, frame) ==
    IF FrameCommand(frame) = 5121 /\ FrameSubcommand(frame) = 1 /\ Len(frame) = 22
    THEN MemSet(mem, FrameDevice(frame), Py(frame, 21) \div 16)
    ELSE IF FrameCommand(frame) = 5121 /\ FrameSubcommand(frame) = 0 /\ Len(frame) = 23
    THEN MemSet(mem, FrameDevice(frame), Py(frame, 21) + 256 * Py(frame, 22))
    ELSE mem

\* the controller's response to a frame: a read answers from the memory
\* (bit: one byte 0x10 or 0x00; word: low, high), a write with the end code
\* alone, anything else with error 0xC059
ControllerResponse(mem, frame) ==
    IF FrameCommand(frame) = 1025 /\ FrameSubcommand(frame) = 1 /\ Len(frame) = 21
    THEN Response(0, <<IF MemGet(mem, FrameDevice(frame)) # 0 THEN 16 ELSE 0>>)
    ELSE IF FrameCommand(frame) = 1025 /\ FrameSubcommand(frame) = 0 /\ Len(frame) = 21
    THEN Response(0, <<MemGet(mem, FrameDevice(frame)) % 256,
                       MemGet(mem, FrameDevice(frame)) \div 256>>)
    ELSE IF FrameCommand(frame) = 5121 /\ Len(frame) \in {22, 23}
    THEN Response(0, <<>>)
    ELSE Response(49241, <<>>)

\* ------------------------------------------------------------------------
\* State
\* ------------------------------------------------------------------------

Threads == {"t1", "t2"}

Hosts == {"h1", "h2"}

\* the host the concurrent callers share
SpecHosts == {"h1"}

\* public calls the threads make, all together, before they stop
MaxCalls == 5

VARIABLES
    connections,  \* FX5.__connections: host -> instance (0: no entry)
    inst,         \* the FX5 instances constructed so far: [host, isopen]
    lock,         \* FX5.__lock, the RLock of the class: [owner, count]
    socks,        \* each instance's __client, None or the socket it holds now:
                  \* [state, inbuf] (a socket it held before is out of reach)
    mem,          \* each host's controller memory: device -> value
    th,           \* each thread: where it is in which call, and its locals
    written,      \* per host and device, the value of the last write that returned
    fin,          \* the input of a pure function under check
    fout          \* its result

vars == <<connections, inst, lock, socks, mem, th, written, fin, fout>>

NoThread == "none"

\* result before recv returned anything
NoResult == <<-1>>

Idle ==
    [ pc |-> "idle", fn |-> "none", host |-> "none", self |-> 0, call |-> None,
      cmd |-> <<>>, rest |-> <<>>, data |-> <<>>, result |-> NoResult,
      answers |-> NoThread, out |-> None,
      log |-> <<>>, connects |-> 0, n |-> 0 ]

TransportInit ==
    /\ connections = [h \in Hosts |-> 0]
    /\ inst = <<>>
    /\ lock = [owner |-> NoThread, count |-> 0]
    /\ socks = <<>>
    /\ mem = [h \in Hosts |-> <<>>]
    /\ th = [t \in Threads |-> Idle]
    /\ written = [h \in Hosts |-> <<>>]

Init == TransportInit /\ fin = None /\ fout = None

\* the instance a thread works on, and that instance's __client
Self(t) == inst[th[t].self]

Client(t) == socks[th[t].self]

\* the public calls made so far by the threads ts
RECURSIVE CallsMade(_)
CallsMade(ts) ==
    IF ts = {} THEN 0
    ELSE LET t == CHOOSE x \in ts : TRUE IN th[t].n + CallsMade(ts \ {t})

\* a thread may start a public call
CanCall(t, bound) == th[t].pc = "idle" /\ CallsMade(Threads) < bound

\* the thread's locals at the start of a public call
Begin(t, fn) ==
    [th[t] EXCEPT !.fn = fn, !.call = None, !.cmd = <<>>, !.rest = <<>>, !.data = <<>>,
                  !.result = NoResult, !.answers = NoThread, !.out = None, !.log = <<>>, !.connects = 0,
                  !.n = @ + 1]

\* ------------------------------------------------------------------------
\* Connection registry (FX5.get_connection, FX5.__init__)
\* ------------------------------------------------------------------------

\* FX5(host): a new instance with the class defaults, __isopen False and
\* __client None; no socket is made
NewFX5(host) == [host |-> host, isopen |-> FALSE]

NoSocket == [state |-> "none", inbuf |-> <<>>]

\* if host not in cls.__connections
NotRegistered(host) == connections[host] = 0

\* get_connection(host) up to its test of the registry
get_connection(t, host, bound) ==
    /\ CanCall(t, bound)
    /\ th' = [th EXCEPT ![t] =
                [Begin(t, "get_connection") EXCEPT
                    !.host = host,
                    !.pc = IF NotRegistered(host) THEN "gc_store" ELSE "gc_return"]]
    /\ UNCHANGED <<connections, inst, lock, socks, mem, written, fin, fout>>

\* cls.__connections[host] = FX5(host)
gc_store(t) ==
    /\ th[t].pc = "gc_store"
    /\ inst' = Append(inst, NewFX5(th[t].host))
    /\ socks' = Append(socks, NoSocket)
    /\ connections' = [connections EXCEPT ![th[t].host] = Len(inst) + 1]
    /\ th' = [th EXCEPT ![t].pc = "gc_return"]
    /\ UNCHANGED <<lock, mem, written, fin, fout>>

\* return cls.__connections[host]
gc_return(t) ==
    /\ th[t].pc = "gc_return"
    /\ th' = [th EXCEPT ![t].pc = "idle", ![t].self = connections[th[t].host],
                        ![t].out = Ok(connections[th[t].host])]
    /\ UNCHANGED <<connections, inst, lock, socks, mem, written, fin, fout>>

\* ------------------------------------------------------------------------
\* The lock (with self.__lock: FX5.__lock is one RLock, an attribute of the
\* class, which its owner may take again)
\* ------------------------------------------------------------------------

\* variant: a lock that never makes a thread wait
CanAcquireAlways(t) == TRUE

CanAcquire(t) == lock.owner \in {NoThread, t}

Acquired(t) == [owner |-> t, count |-> (IF lock.owner = t THEN lock.count ELSE 0) + 1]

Released(t) ==
    IF lock.owner = t /\ lock.count > 1 THEN [owner |-> t, count |-> lock.count - 1]
    ELSE [owner |-> NoThread, count |-> 0]

\* ------------------------------------------------------------------------
\* Public calls: read, write, exec_cmd (up to __send), and their return
\* ------------------------------------------------------------------------

\* the device of a call as the caller names it: <<kind letter, number>>
DevKey(call) == <<call.devno[1], IntOfStr(Tail(call.devno)).v>>

PyUnknown == [t |-> "unknown"]

\* variant: a call that goes back into __send once after an OSError
FinishRetry(t, o) ==
    IF IsExc(o) /\ o.e = "OSError" /\ th[t].fn # "exec_cmd" /\ th[t].connects < 2
    THEN [th[t] EXCEPT !.pc = "send_lock"]
    ELSE IF th[t].fn = "exec_cmd" /\ IsOk(o) /\ th[t].rest # <<>>
    THEN [th[t] EXCEPT !.pc = "exec_loop", !.data = <<>>]
    ELSE [th[t] EXCEPT !.pc = "idle", !.data = <<>>,
                       !.out = IF th[t].fn = "exec_cmd" /\ IsOk(o) THEN Ok(PyNone) ELSE o]

\* the thread after read or write ended with outcome o: exec_cmd goes on to
\* its next assignment after a write that returned, and ends otherwise
Finish(t, o) ==
    IF th[t].fn = "exec_cmd" /\ IsOk(o) /\ th[t].rest # <<>>
    THEN [th[t] EXCEPT !.pc = "exec_loop", !.data = <<>>]
    ELSE [th[t] EXCEPT !.pc = "idle", !.data = <<>>,
                       !.out = IF th[t].fn = "exec_cmd" /\ IsOk(o) THEN Ok(PyNone) ELSE o]

\* what is known of the devices of a host once a call that reached __send
\* ended with outcome o: a write that returned is the device's last written
\* value; a write that raised after its frame went out leaves it unknown
Written(t, o) ==
    LET h == Self(t).host
        c == th[t].call
    IN  IF c.op # "write" THEN written
        ELSE IF IsOk(o)
        THEN [written EXCEPT ![h] = MemSet(written[h], DevKey(c), c.value)]
        ELSE IF th[t].log # <<>> /\ th[t].log[Len(th[t].log)] = th[t].data
        THEN [written EXCEPT ![h] = MemSet(written[h], DevKey(c), PyUnknown)]
        ELSE written

\* read(devno, as_ascii) or write(devno, value, as_ascii) on the thread's
\* instance: an exception before any I/O, or the frame handed to __send
read_write(t, c, bound) ==
    /\ CanCall(t, bound)
    /\ th[t].self # 0
    /\ LET req == Request(c)
       IN  th' = [th EXCEPT ![t] =
                    IF IsExc(req)
                    THEN [Begin(t, c.op) EXCEPT !.call = c, !.out = req]
                    ELSE [Begin(t, c.op) EXCEPT !.call = c, !.data = req.v, !.pc = "send_lock"]]
    /\ UNCHANGED <<connections, inst, lock, socks, mem, written, fin, fout>>

\* exec_cmd(cmd): for dev_value in cmd.split(',')
exec_cmd(t, cmd, bound) ==
    /\ CanCall(t, bound)
    /\ th[t].self # 0
    /\ th' = [th EXCEPT ![t] = [Begin(t, "exec_cmd") EXCEPT !.cmd = cmd,
                                                             !.rest = Split(cmd, ","),
                                                             !.pc = "exec_loop"]]
    /\ UNCHANGED <<connections, inst, lock, socks, mem, written, fin, fout>>

\* dev, value = dev_value.split('='); self.write(dev, value)
exec_loop(t) ==
    /\ th[t].pc = "exec_loop"
    /\ LET parts == Split(Head(th[t].rest), "=")
           c == WriteCall(parts[1], PyStr(parts[2]), FALSE)
           req == Request(c)
       IN  th' = [th EXCEPT ![t] =
                    IF Len(parts) # 2
                    THEN [@ EXCEPT !.pc = "idle",
                                   !.out = Raise("ValueError", 0, "unpack")]
                    ELSE IF IsExc(req)
                    THEN [@ EXCEPT !.pc = "idle", !.call = c, !.out = req]
                    ELSE [@ EXCEPT !.pc = "send_lock", !.call = c, !.data = req.v,
                                   !.rest = Tail(@), !.result = NoResult,
                                   !.answers = NoThread]]
    /\ UNCHANGED <<connections, inst, lock, socks, mem, written, fin, fout>>

\* ------------------------------------------------------------------------
\* Transport: FX5.__open, FX5.__send, FX5.close, FX5.is_open
\*
\* A step of a thread ends where another thread's step can make a
\* difference to it: before the lock, before connect, before the flag is
\* set, before sendall, before recv, before is_open reads the flag.  The
\* handler of __send (close, then raise) runs in the step that failed: the
\* other threads wait for the lock meanwhile, and a close() of theirs writes
\* what the handler writes.
\* ------------------------------------------------------------------------

\* where __open returns to
AfterOpen(t) == IF th[t].fn = "is_open" THEN "isopen_return" ELSE "send_sendall"

\* __open: if not self.__isopen
MustConnect(i) == ~inst[i].isopen

\* self.__client = socket.socket(...); self.__client.settimeout(2)
NewSocket == [state |-> "new", inbuf |-> <<>>]

\* with self.__lock: then __open as far as connect: nothing to do on an
\* open transport, a new socket in self.__client otherwise
Enter(t) ==
    /\ CanAcquire(t)
    /\ lock' = Acquired(t)
    /\ IF MustConnect(th[t].self)
       THEN /\ socks' = [socks EXCEPT ![th[t].self] = NewSocket]
            /\ th' = [th EXCEPT ![t].pc = "open_connect"]
       ELSE /\ th' = [th EXCEPT ![t].pc = AfterOpen(t)]
            /\ UNCHANGED socks
    /\ UNCHANGED <<connections, inst, mem, written, fin, fout>>

send_lock(t) == th[t].pc = "send_lock" /\ Enter(t)

\* variant: a close that leaves the flag as it is
CloseFlagKept(i) == inst

\* self.__isopen = False
CloseFlag(i) == [inst EXCEPT ![i].isopen = FALSE]

\* self.__client.close() on the sockets ss (the AttributeError of
\* None.close() is passed over)
CloseClient(ss, i) ==
    IF ss[i].state = "none" THEN ss ELSE [ss EXCEPT ![i].state = "closed"]

\* variant: an exception that leaves the lock with the thread
HandlerHolds(t, e, ss) ==
    /\ inst' = CloseFlag(th[t].self)
    /\ socks' = CloseClient(ss, th[t].self)
    /\ lock' = lock
    /\ written' = Written(t, e)

\* except Exception as e: self.close(); raise e, which leaves the with block
Handler(t, e, ss) ==
    /\ inst' = CloseFlag(th[t].self)
    /\ socks' = CloseClient(ss, th[t].self)
    /\ lock' = Released(t)
    /\ written' = Written(t, e)

\* self.__client.connect(...): the peer accepts or not; a socket closed in
\* the meantime cannot connect.  A failure is an exception of __open: the
\* handler of __send takes it, is_open passes over it.
open_connect(t) ==
    /\ th[t].pc = "open_connect"
    /\ \/ /\ Client(t).state = "new"
          /\ socks' = [socks EXCEPT ![th[t].self].state = "connected"]
          /\ th' = [th EXCEPT ![t].pc = "open_flag", ![t].connects = @ + 1]
          /\ UNCHANGED <<inst, lock, written>>
       \/ /\ th[t].fn = "is_open"
          /\ th' = [th EXCEPT ![t].pc = "isopen_return", ![t].connects = @ + 1]
          /\ UNCHANGED <<inst, lock, socks, written>>
       \/ /\ th[t].fn # "is_open"
          /\ Handler(t, Raise("OSError", 0, "connect"), socks)
          /\ th' = [th EXCEPT ![t] = [Finish(t, Raise("OSError", 0, "connect"))
                                        EXCEPT !.connects = @ + 1]]
    /\ UNCHANGED <<connections, mem, fin, fout>>

\* self.__isopen = True
open_flag(t) ==
    /\ th[t].pc = "open_flag"
    /\ inst' = [inst EXCEPT ![th[t].self].isopen = TRUE]
    /\ th' = [th EXCEPT ![t].pc = AfterOpen(t)]
    /\ UNCHANGED <<connections, lock, socks, mem, written, fin, fout>>

\* self.__client.sendall(data): the frame reaches the controller, which
\* stores a write and queues its response on the connection, or the send
\* fails (always on a socket that is not connected)
send_sendall(t) ==
    /\ th[t].pc = "send_sendall"
    /\ \/ LET h == Self(t).host
          IN  /\ Client(t).state = "connected"
              /\ mem' = [mem EXCEPT ![h] = ControllerMem(mem[h], th[t].data)]
              /\ socks' = [socks EXCEPT ![th[t].self].inbuf =
                            Append(@, [bytes |-> ControllerResponse(mem[h], th[t].data),
                                       for |-> t])]
              /\ th' = [th EXCEPT ![t].pc = "send_recv", ![t].log = Append(@, th[t].data)]
              /\ UNCHANGED <<inst, lock, written>>
       \/ /\ Handler(t, Raise("OSError", 0, "sendall"), socks)
          /\ th' = [th EXCEPT ![t] = Finish(t, Raise("OSError", 0, "sendall"))]
          /\ UNCHANGED mem
    /\ UNCHANGED <<connections, fin, fout>>

\* what recv(128) may return for the response at the head of the connection:
\* the response, or one of the damaged responses in faults
Received(head, faults) == {head.bytes} \cup faults

\* the outcome of __send and of the read or write around it once a result
\* of at least 11 bytes is there: the error code raised, or the decoded payload
Outcome(call, result) ==
    LET re == send_parse(result)
    IN  IF IsExc(re) THEN re ELSE Reply(call, re.v)

\* result = self.__client.recv(128) and the rest of __send.  recv fails
\* (time-out, reset, closed socket) or returns bytes; fewer than 11 raise
\* the connection error inside the try block; otherwise __send goes on to
\* the error code and the payload, outside it.
send_recv(t, faults) ==
    /\ th[t].pc = "send_recv"
    /\ \/ /\ Handler(t, Raise("OSError", 0, "recv"), socks)
          /\ th' = [th EXCEPT ![t] = Finish(t, Raise("OSError", 0, "recv"))]
       \/ /\ Client(t).state = "connected"
          /\ Client(t).inbuf # <<>>
          /\ \E result \in Received(Head(Client(t).inbuf), faults) :
              LET popped == [socks EXCEPT ![th[t].self].inbuf = Tail(@)]
                  from == Head(Client(t).inbuf).for
              IN  IF TooShort(result)
                  THEN /\ Handler(t, Raise("Exception", 0, ConnectionErrorMsg), popped)
                       /\ th' = [th EXCEPT ![t] =
                                  [Finish(t, Raise("Exception", 0, ConnectionErrorMsg))
                                      EXCEPT !.result = result, !.answers = from]]
                  ELSE /\ socks' = popped
                       /\ lock' = Released(t)
                       /\ written' = Written(t, Outcome(th[t].call, result))
                       /\ th' = [th EXCEPT ![t] =
                                  [Finish(t, Outcome(th[t].call, result))
                                      EXCEPT !.result = result, !.answers = from]]
                       /\ UNCHANGED inst
    /\ UNCHANGED <<connections, mem, fin, fout>>

\* close(): self.__isopen = False ...
close(t, bound) ==
    /\ CanCall(t, bound)
    /\ th[t].self # 0
    /\ inst' = CloseFlag(th[t].self)
    /\ th' = [th EXCEPT ![t] = [Begin(t, "close") EXCEPT !.pc = "close_sock"]]
    /\ UNCHANGED <<connections, lock, socks, mem, written, fin, fout>>

\* ... self.__client.close()
close_sock(t) ==
    /\ th[t].pc = "close_sock"
    /\ socks' = CloseClient(socks, th[t].self)
    /\ th' = [th EXCEPT ![t].pc = "idle", ![t].out = Ok(PyNone)]
    /\ UNCHANGED <<connections, inst, lock, mem, written, fin, fout>>

\* is_open()
is_open(t, bound) ==
    /\ CanCall(t, bound)
    /\ th[t].self # 0
    /\ th' = [th EXCEPT ![t] = [Begin(t, "is_open") EXCEPT !.pc = "isopen_lock"]]
    /\ UNCHANGED <<connections, inst, lock, socks, mem, written, fin, fout>>

\* with self.__lock: try: self.__open()
isopen_lock(t) == th[t].pc = "isopen_lock" /\ Enter(t)

\* return self.__isopen
isopen_return(t) ==
    /\ th[t].pc = "isopen_return"
    /\ lock' = Released(t)
    /\ th' = [th EXCEPT ![t].pc = "idle", ![t].out = Ok(PyBool(Self(t).isopen))]
    /\ UNCHANGED <<connections, inst, socks, mem, written, fin, fout>>

\* ------------------------------------------------------------------------
\* The program under concurrent callers
\* ------------------------------------------------------------------------

\* the calls the threads make
Calls ==
    { ReadCall(<<"M", "1">>, FALSE),
      WriteCall(<<"M", "1">>, PyInt(1), FALSE),
      ReadCall(<<"D", "2">>, FALSE),
      ReadCall(<<"X", "1">>, FALSE) }

\* damaged responses: nothing (the peer closed), ten bytes, error C05C
Faults ==
    { <<>>,
      <<208, 0, 0, 255, 255, 3, 0, 2, 0, 0>>,
      Response(49244, <<>>) }

Step(t) ==
    \/ \E h \in SpecHosts : get_connection(t, h, MaxCalls)
    \/ gc_store(t)
    \/ gc_return(t)
    \/ \E c \in Calls : read_write(t, c, MaxCalls)
    \/ send_lock(t)
    \/ open_connect(t)
    \/ open_flag(t)
    \/ send_sendall(t)
    \/ send_recv(t, Faults)
    \/ close(t, MaxCalls)
    \/ close_sock(t)
    \/ is_open(t, MaxCalls)
    \/ isopen_lock(t)
    \/ isopen_return(t)

Next == \E t \in Threads : Step(t)

Spec == Init /\ [][Next]_vars

\* ------------------------------------------------------------------------
\* The program under one caller and a controller that answers every frame
\* that reaches it (connect, sendall and recv may still fail)
\* ------------------------------------------------------------------------

E2EThreads == {"t1"}

E2EHosts == {"h1"}

\* public calls the caller makes before it stops
MaxE2ECalls == 4

D500 == <<"D", "5", "0", "0">>

D501 == <<"D", "5", "0", "1">>

M1600 == <<"M", "1", "6", "0", "0">>

M1601 == <<"M", "1", "6", "0", "1">>

\* the calls of the tests (test_m_dev_operation, test_d_dev_operation),
\* writes to a second device of each kind, and calls on X devices (X100, and
\* X1F as input relays are numbered)

E2ECalls ==
    { WriteCall(D500, PyInt(30), FALSE), WriteCall(D500, PyInt(30000), FALSE),
      WriteCall(D501, PyInt(7), FALSE),
      WriteCall(M1600, PyInt(0), FALSE), WriteCall(M1600, PyInt(1), FALSE),
      WriteCall(M1600, PyInt(2), FALSE), WriteCall(M1601, PyInt(1), FALSE),
      ReadCall(D500, FALSE), ReadCall(M1600, FALSE),
      ReadCall(<<"X", "1", "0", "0">>, FALSE), WriteCall(<<"X", "1", "0", "0">>, PyInt(1), FALSE),
      ReadCall(<<"X", "1", "F">>, FALSE) }

\* 'M1600=1,D500=30', 'D500=40000', 'D500=30,X1=1,D501=7', 'D501=7,D500',
\* 'M1600=2'
E2ECmds ==
    { M1600 \o <<"=", "1", ",">> \o D500 \o <<"=", "3", "0">>,
      D500 \o <<"=", "4", "0", "0", "0", "0">>,
      D500 \o <<"=", "3", "0", ",", "X", "1", "=", "1", ",">> \o D501 \o <<"=", "7">>,
      D501 \o <<"=", "7", ",">> \o D500,
      M1600 \o <<"=", "2">> }

StepE2E(t) ==
    \/ \E h \in E2EHosts : get_connection(t, h, MaxE2ECalls)
    \/ gc_store(t)
    \/ gc_return(t)
    \/ \E c \in E2ECalls : read_write(t, c, MaxE2ECalls)
    \/ \E cmd \in E2ECmds : exec_cmd(t, cmd, MaxE2ECalls)
    \/ exec_loop(t)
    \/ send_lock(t)
    \/ open_connect(t)
    \/ open_flag(t)
    \/ send_sendall(t)
    \/ send_recv(t, {})
    \/ close(t, MaxE2ECalls)
    \/ close_sock(t)

NextE2E == \E t \in E2EThreads : StepE2E(t)

SpecE2E == Init /\ [][NextE2E]_vars

\* ------------------------------------------------------------------------
\* The pure functions on their own: an input fin, and the function applied
\* ------------------------------------------------------------------------

\* __send on the bytes recv returned: the length check, then the error code
\* and the payload
send_result(result) ==
    IF TooShort(result) THEN Raise("Exception", 0, ConnectionErrorMsg) ELSE send_parse(result)

\* responses: the 7 header bytes, a declared length (low, high), an end code
\* (low, high) and what follows; and the same cut to fewer than 11 bytes
ResponseInputs ==
    { <<208, 0, 0, 255, 255, 3, 0>> \o <<b7, b8>> \o ec \o payload :
        b7 \in 0..5, b8 \in {0, 128, 255},
        ec \in { <<0, 0>>, <<0, 1>>, <<85, 0>>, <<92, 192>>, <<52, 18>> },
        payload \in { <<>>, <<16>>, <<30, 0>>, <<1, 2, 3>> } }
    \cup { <<>>, <<208, 0, 0, 255, 255, 3, 0, 2, 0, 0>>, <<208, 0, 0, 255, 255, 3, 0, 3, 0, 92>> }

\* the payload byte of a response to a bit read
BitInputs == 0..255

\* a bit device and the value written to it: an int, or the str of exec_cmd
BitValues ==
    { PyInt(n) : n \in -2..5 } \cup
    { PyStr(<<"0">>), PyStr(<<"1">>), PyStr(<<"2">>), PyStr(<<"1", "0">>), PyStr(<<"-", "1">>) }

BitWriteInputs ==
    { [devno |-> d, value |-> v] : d \in { <<"M", "1", "5", "0", "1">>, <<"M", "0">> },
                                   v \in BitValues }

InitPure ==
    /\ TransportInit
    /\ \/ \E r \in ResponseInputs : fin = [f |-> "send", x |-> r]
       \/ \E b \in BitInputs : fin = [f |-> "read_m", x |-> b]
       \/ \E w \in BitWriteInputs : fin = [f |-> "write_m", x |-> w]
    /\ fout = None

Pending(f) == fin.f = f /\ fout = None

\* __send on a received result
parse_response ==
    /\ Pending("send")
    /\ fout' = send_result(fin.x)
    /\ UNCHANGED <<connections, inst, lock, socks, mem, th, written, fin>>

\* read('M1600') on a response that carries one payload byte
read_bit ==
    /\ Pending("read_m")
    /\ fout' = Outcome(ReadCall(M1600, FALSE), Response(0, <<fin.x>>))
    /\ UNCHANGED <<connections, inst, lock, socks, mem, th, written, fin>>

\* write(devno, value) on a bit device, as far as the frame
write_bit ==
    /\ Pending("write_m")
    /\ fout' = Request(WriteCall(fin.x.devno, fin.x.value, FALSE))
    /\ UNCHANGED <<connections, inst, lock, socks, mem, th, written, fin>>

NextPure == parse_response \/ read_bit \/ write_bit

SpecPure == InitPure /\ [][NextPure]_vars

\* ------------------------------------------------------------------------
\* Properties of the response parser and of the bit-device calls (SpecPure)
\* ------------------------------------------------------------------------

\* the error indicator of a response: byte 10 high, byte 9 low
Combined(x) == 256 * Py(x, 10) + Py(x, 9)

\* the 16 bits low + 256 * high as a two's-complement number
Signed16(low, high) ==
    IF 256 * high + low >= 32768 THEN 256 * high + low - 65536 ELSE 256 * high + low

\* the declared payload length L of a response
DeclaredL(x) == Signed16(Py(x, 7), Py(x, 8)) - 2

Parsed == fin.f = "send" /\ fout # None /\ Len(fin.x) >= 11

\* C5: every response of at least 11 bytes whose combined error indicator
\* (byte 10 high, byte 9 low) is nonzero, also when one of the two bytes is
\* zero, fails with a protocol error that carries the decoded code and the
\* message of the error table (or the unknown-error fallback); no payload is
\* returned.
C5_NonzeroIndicatorIsProtocolError ==
    (Parsed /\ Combined(fin.x) # 0) =>
        /\ IsExc(fout)
        /\ fout.e = "Exception"
        /\ fout.code = Combined(fin.x)
        /\ fout.msg = ErrorMsg(Combined(fin.x))

\* C6 as stated: for a response of at least 11 bytes with no error indicated
\* the payload returned is exactly bytes 11 .. 11+L-1, L = signed16(byte 7
\* low, byte 8 high) - 2, and it is empty, without an error of the parser,
\* when L <= 0.
C6_PayloadIsDeclaredBytes ==
    (Parsed /\ Combined(fin.x) = 0) =>
        /\ IsOk(fout)
        /\ Len(fout.v) = (IF DeclaredL(fin.x) > 0 THEN DeclaredL(fin.x) ELSE 0)
        /\ \A i \in 1..Len(fout.v) : fout.v[i] = Py(fin.x, 11 + (i - 1))

\* C6: for a response of at least 11 bytes with no error indicated and
\* L = signed16(byte 7 low, byte 8 high) - 2: when L <= 0 the payload is
\* empty and the parser raises nothing; when L > 0 and the response holds at
\* least 11 + L bytes the payload is exactly bytes 11 .. 11+L-1; when L > 0
\* and the response ends before byte 11+L-1 the parser raises an IndexError
\* and returns no payload.
C6_PayloadOfCompleteResponse ==
    (Parsed /\ Combined(fin.x) = 0) =>
        IF DeclaredL(fin.x) <= 0 THEN fout = Ok(<<>>)
        ELSE IF Len(fin.x) >= 11 + DeclaredL(fin.x)
        THEN fout = Ok(SubSeq(fin.x, 12, 11 + DeclaredL(fin.x)))
        ELSE IsExc(fout) /\ fout.e = "IndexError"

\* a response of 14 bytes that declares a payload of 2: the third is left out
C6_Witness == fin.f = "send" /\ Len(fin.x) = 14 /\ fout = Ok(<<1, 2>>)

\* C9: a bit-device read returns True iff the one payload byte of the
\* response is 0x10, and False for every other byte 0..255 (0x01 and 0x11
\* among them).
C9_BitReadTrueIff0x10 ==
    (fin.f = "read_m" /\ fout # None) => fout = Ok(PyBool(fin.x = 16))

\* the payload byte 0x11 read as False
C9_Witness == fin.f = "read_m" /\ fin.x = 17 /\ fout = Ok(PyBool(FALSE))

\* C10: a bit-device write sends the payload byte 0x10 for every nonzero
\* integer value (1, 2, -1, the '2' of a command string) and 0x00 for 0.
C10_NonzeroWritesOn ==
    (fin.f = "write_m" /\ fout # None /\ IsOk(IntOf(fin.x.value))) =>
        /\ IsOk(fout)
        /\ Py(fout.v, 21) = (IF IntOf(fin.x.value).v # 0 THEN 16 ELSE 0)

\* ------------------------------------------------------------------------
\* Properties of concurrent callers (Spec)
\* ------------------------------------------------------------------------

\* a thread between the start of its sendall and the end of its recv
Exchanging(t) == th[t].pc \in {"send_sendall", "send_recv"}

\* C1: exchanges are mutually exclusive: at most one caller is between
\* starting to write its frame and finishing its receive, no connection
\* carries the responses of two requests at once, and the response a caller
\* receives is the response to its own frame.
C1_ExchangesSerialized ==
    /\ \A t, u \in Threads : (t # u /\ Exchanging(t)) => ~Exchanging(u)
    /\ \A i \in 1..Len(socks) : Len(socks[i].inbuf) <= 1
    /\ \A t \in Threads : th[t].answers \in {NoThread, t}

\* one caller waits for its response while the other, on the same
\* instance, waits for the lock
C1_Witness ==
    \E t, u \in Threads :
        /\ th[t].pc = "send_recv"
        /\ th[u].pc = "send_lock"
        /\ th[t].self = th[u].self

\* C2: whatever the interleaving of get_connection(h) calls, the first
\* access included, at most one instance is ever constructed for a host and
\* every caller holds that instance.
C2_OneInstancePerHost ==
    /\ \A h \in Hosts : Cardinality({i \in 1..Len(inst) : inst[i].host = h}) <= 1
    /\ \A t, u \in Threads :
          (th[t].self # 0 /\ th[u].self # 0 /\ Self(t).host = Self(u).host)
              => th[t].self = th[u].self

\* the positions of a thread inside the with block of __send
InSend(t) ==
    /\ th[t].fn \in {"read", "write", "exec_cmd"}
    /\ th[t].pc \in {"open_connect", "open_flag", "send_sendall", "send_recv"}

\* the step of t that leaves __send by a failure of the transport: out of
\* connect or sendall, or out of recv with nothing or fewer than 11 bytes
FailsInSend(t) ==
    /\ InSend(t)
    /\ th'[t].pc \notin {"open_connect", "open_flag", "send_sendall", "send_recv"}
    /\ \/ th[t].pc # "send_recv"
       \/ th'[t].result = NoResult
       \/ TooShort(th'[t].result)

\* an exception of the transport: of the socket, or the connection error
TransportError(o) ==
    /\ IsExc(o)
    /\ \/ o.e = "OSError"
       \/ o.e = "Exception" /\ o.msg = ConnectionErrorMsg

\* C3: when an exchange fails at the transport (connect, sendall, recv, or a
\* response of fewer than 11 bytes), the call ends with that error raised to
\* its caller, and at that moment the instance's flag is False, its socket
\* closed and the lock free of the caller.
C3_FailureClosesAndPropagates ==
    [][\A t \in Threads :
          FailsInSend(t) =>
              /\ ~inst'[th[t].self].isopen
              /\ socks'[th[t].self].state = "closed"
              /\ th'[t].pc = "idle"
              /\ TransportError(th'[t].out)
              /\ lock'.owner # t]_vars

\* a read or write that received fewer than 11 bytes: the connection error
\* is its outcome and the transport is closed
C3_Witness ==
    \E t \in Threads :
        /\ th[t].pc = "idle"
        /\ th[t].fn \in {"read", "write"}
        /\ th[t].result # NoResult
        /\ TooShort(th[t].result)
        /\ th[t].out = Raise("Exception", 0, ConnectionErrorMsg)
        /\ ~Self(t).isopen
        /\ Client(t).state = "closed"

\* C4: a transport is closed when created and get_connection connects
\* nothing; a connect is attempted exactly when __send or is_open enters on
\* a closed transport, never on an open one; after close() or a failed
\* exchange, where the socket is torn down, the next __send connects anew
\* before it writes its frame.
C4_ConnectOnDemand ==
    [][/\ Len(inst') > Len(inst) =>
             /\ ~inst'[Len(inst')].isopen
             /\ socks'[Len(inst')].state = "none"
       /\ \A t \in Threads :
             /\ th'[t].fn = "get_connection" => th'[t].connects = 0
             /\ (th[t].pc = "open_connect" /\ th'[t].pc # "open_connect")
                    => ~inst[th[t].self].isopen
             /\ (th[t].pc \in {"send_lock", "isopen_lock"} /\ th'[t].pc # th[t].pc)
                    => (th'[t].pc = "open_connect" <=> ~inst[th[t].self].isopen)
             /\ (th[t].pc = "send_lock" /\ th'[t].pc # "send_lock"
                     /\ socks[th[t].self].state # "connected")
                    => th'[t].pc = "open_connect"]_vars

\* ------------------------------------------------------------------------
\* Properties of one caller against the controller (SpecE2E)
\* ------------------------------------------------------------------------

\* a read that returned, of a device whose last write returned
ReadOfWritten(t) ==
    /\ th[t].pc = "idle"
    /\ th[t].fn = "read"
    /\ IsOk(th[t].out)
    /\ DevKey(th[t].call) \in DOMAIN written[Self(t).host]
    /\ written[Self(t).host][DevKey(th[t].call)] # PyUnknown

LastWritten(t) == IntOf(written[Self(t).host][DevKey(th[t].call)]).v

\* C7: against a controller that stores what it is sent, a read of a word
\* device returns the value last written to it when that is in 0..32767,
\* and a read of a bit device returns True iff the value last written to it
\* was 1; writes to other devices in between make no difference.
C7_ReadReturnsLastWritten ==
    \A t \in E2EThreads :
        ReadOfWritten(t) =>
            IF th[t].call.devno[1] = "M"
            THEN th[t].out = Ok(PyBool(LastWritten(t) = 1))
            ELSE LastWritten(t) \in 0..32767 => th[t].out = Ok(PyInt(LastWritten(t)))

\* D500 read as 30000 after a write of it
C7_Witness ==
    \E t \in E2EThreads :
        /\ ReadOfWritten(t)
        /\ th[t].call.devno = D500
        /\ th[t].out = Ok(PyInt(30000))

\* the assignments of a command: <<device, value>> per piece
Pieces(cmd) == [k \in 1..Len(Split(cmd, ",")) |-> Split(Split(cmd, ",")[k], "=")]

\* what read(devno) returns from the controller as it is
ReadBack(h, devno) ==
    LET c == ReadCall(devno, FALSE)
    IN  Outcome(c, ControllerResponse(mem[h], Request(c).v))

\* the value an assignment gives a device, as read returns values: a bit
\* device is on for a nonzero value, a word device holds the number
Assigned(devno, value) ==
    IF devno[1] = "M" THEN Ok(PyBool(IntOfStr(value).v # 0))
    ELSE Ok(PyInt(IntOfStr(value).v))

\* the k-th piece is the last of the first n to assign its device
IsLastFor(cmd, k, n) ==
    \A j \in (k + 1)..n : Pieces(cmd)[j][1] # Pieces(cmd)[k][1]

\* the pieces exec_cmd has taken up, and those of them whose write returned
TakenUp(t) == Len(Pieces(th[t].cmd)) - Len(th[t].rest)

Returned(t) ==
    IF th[t].pc = "idle" /\ IsOk(th[t].out) THEN Len(Pieces(th[t].cmd))
    ELSE IF th[t].pc = "idle" /\ TransportError(th[t].out) THEN TakenUp(t) - 1
    ELSE TakenUp(t)

\* C8: exec_cmd sends the writes of its command left to right, one frame per
\* device=value pair in the non-ASCII encoding; when a write fails the
\* failure is raised to the caller, the frames after it are never sent and
\* the writes before it stay applied; when none fails every device of the
\* command reads back the value assigned to it.
C8_ExecCmdInOrder ==
    \A t \in E2EThreads :
        th[t].fn = "exec_cmd" =>
            /\ Len(th[t].log) <= TakenUp(t)
            /\ \A k \in 1..Len(th[t].log) :
                  th[t].log[k] = Request(WriteCall(Pieces(th[t].cmd)[k][1],
                                                   PyStr(Pieces(th[t].cmd)[k][2]), FALSE)).v
            /\ (th[t].pc = "idle" /\ th[t].rest # <<>>) => IsExc(th[t].out)
            /\ th[t].pc = "idle" =>
                  \A k \in 1..Returned(t) :
                      IsLastFor(th[t].cmd, k, TakenUp(t)) =>
                          ReadBack(Self(t).host, Pieces(th[t].cmd)[k][1])
                              = Assigned(Pieces(th[t].cmd)[k][1], Pieces(th[t].cmd)[k][2])

\* ------------------------------------------------------------------------
\* The frames of read and write on their own (SpecFrame): a call with the
\* device index i written out in decimal, and the frame built for it
\* ------------------------------------------------------------------------

\* the decimal digits of a natural number, as the caller writes an address
RECURSIVE StrOfNat(_)
StrOfNat(n) ==
    IF n < 10 THEN <<DecDigits[n + 1]>>
    ELSE StrOfNat(n \div 10) \o <<DecDigits[(n % 10) + 1]>>

\* device indices: small ones, one per byte boundary, the largest of 24
\* bits, and indices that need more than 24 bits
FrameIndices ==
    { 0, 1, 255, 256, 1600, 65535, 65536, 1000000, Pow2(24) - 1,
      Pow2(24), Pow2(24) + 500, Pow2(25) + 1600 }

\* values written to a bit device and to a word device
FrameBitValues == { PyInt(n) : n \in -1..2 }

FrameWordValues == { PyInt(n) : n \in {0, 30, 255, 256, 40000, 65535} }

FrameCalls(i) ==
    { ReadCall(<<"M">> \o StrOfNat(i), FALSE), ReadCall(<<"D">> \o StrOfNat(i), FALSE) }
    \cup { WriteCall(<<"M">> \o StrOfNat(i), v, FALSE) : v \in FrameBitValues }
    \cup { WriteCall(<<"D">> \o StrOfNat(i), v, FALSE) : v \in FrameWordValues }

InitFrame ==
    /\ TransportInit
    /\ \E i \in FrameIndices : \E c \in FrameCalls(i) :
          fin = [f |-> "frame", x |-> [index |-> i, call |-> c]]
    /\ fout = None

\* read or write as far as the frame handed to __send
build_frame ==
    /\ Pending("frame")
    /\ fout' = Request(fin.x.call)
    /\ UNCHANGED <<connections, inst, lock, socks, mem, th, written, fin>>

NextFrame == build_frame

SpecFrame == InitFrame /\ [][NextFrame]_vars

\* two bytes, low first
LE2(n) == <<n % 256, n \div 256>>

\* the frame of an operation on device index i, field by field
ExpectedFrame(op, kind, i, payload) ==
    <<80, 0, 0, 255, 255, 3, 0>>
        \o LE2(IF op = "read" THEN 12 ELSE IF kind = "M" THEN 13 ELSE 14)
        \o <<0, 0>>
        \o LE2(IF op = "read" THEN 1025 ELSE 5121)
        \o LE2(IF kind = "M" THEN 1 ELSE 0)
        \o <<i % 256, (i \div 256) % 256, (i \div 65536) % 256>>
        \o <<IF kind = "M" THEN 144 ELSE 168>>
        \o <<1, 0>>
        \o payload

\* the payloads a frame may carry: none for a read, one byte for a bit
\* write (0x10 for 1, 0x00 for 0), low and high byte for a word write
ExpectedPayloads(c) ==
    IF c.op = "read" THEN { <<>> }
    ELSE IF c.devno[1] = "M"
    THEN IF c.value.v = 1 THEN { <<16>> }
         ELSE IF c.value.v = 0 THEN { <<0>> }
         ELSE { <<0>>, <<16>> }
    ELSE { LE2(c.value.v) }

Framed == fin.f = "frame" /\ fout # None

\* C11: for each of the four operations and every index below 2^24 the
\* frame is byte-exact: header 50 00 00 FF FF 03 00, body length (0x000C,
\* 0x000D, 0x000C, 0x000E) low byte first, 00 00, command and subcommand
\* low byte first, the index as three bytes low first, the device code,
\* 01 00 and the payload of a write; the declared body length is the number
\* of bytes after the length field (total - 9).
C11_FramesByteExact ==
    (Framed /\ fin.x.index < Pow2(24)) =>
        /\ IsOk(fout)
        /\ \E payload \in ExpectedPayloads(fin.x.call) :
              fout.v = ExpectedFrame(fin.x.call.op, fin.x.call.devno[1], fin.x.index, payload)
        /\ Py(fout.v, 7) + 256 * Py(fout.v, 8) = Len(fout.v) - 9

\* the bit read of index 1600: the 21 bytes ending 40 06 00 90 01 00
C11_Witness ==
    /\ fin.f = "frame"
    /\ fin.x.call = ReadCall(M1600, FALSE)
    /\ fout = Ok(<<80, 0, 0, 255, 255, 3, 0, 12, 0, 0, 0, 1, 4, 1, 0, 64, 6, 0, 144, 1, 0>>)

\* C12: a read or write whose index does not fit in 24 bits fails before a
\* frame is built; it is never cut to its low 24 bits and sent.
C12_LargeIndexFails ==
    (Framed /\ fin.x.index >= Pow2(24)) => IsExc(fout)

\* the step in which t invokes read or write
Invokes(t) == th'[t].n = th[t].n + 1 /\ th'[t].fn \in {"read", "write"}

\* C13: read and write of an address whose first character is neither M
\* nor D fail with the unsupported-device error before any network I/O: no
\* connect is attempted, no frame is sent and the transport is as it was.
C13_UnsupportedKindBeforeIO ==
    [][\A t \in E2EThreads :
          (Invokes(t) /\ th'[t].call.devno[1] \notin {"M", "D"}) =>
              /\ th'[t].pc = "idle"
              /\ th'[t].out = Raise("Exception", 0, "Unsupported device type")
              /\ th'[t].connects = 0
              /\ th'[t].log = <<>>
              /\ UNCHANGED <<inst, socks, lock, mem>>]_vars

\* ------------------------------------------------------------------------
\* Two callers and two hosts (SpecTwoHosts): each caller takes the instance
\* of a host and reads from it
\* ------------------------------------------------------------------------

\* public calls the two callers make before they stop
MaxHostCalls == 4

StepTwoHosts(t) ==
    \/ \E h \in Hosts : get_connection(t, h, MaxHostCalls)
    \/ gc_store(t)
    \/ gc_return(t)
    \/ read_write(t, ReadCall(<<"M", "1">>, FALSE), MaxHostCalls)
    \/ send_lock(t)
    \/ open_connect(t)
    \/ open_flag(t)
    \/ send_sendall(t)
    \/ send_recv(t, {})

NextTwoHosts == \E t \in Threads : StepTwoHosts(t)

SpecTwoHosts == Init /\ [][NextTwoHosts]_vars

\* C14: exchanges on the transports of two different hosts are independent:
\* while one caller is inside an exchange on host A, a caller that is about
\* to start an exchange on host B can start it.
C14_HostsIndependent ==
    \A t, u \in Threads :
        (/\ t # u
         /\ InSend(t)
         /\ th[u].pc = "send_lock"
         /\ Self(t).host # Self(u).host) => ENABLED send_lock(u)

\* C15: nothing is retried: a read, write or is_open call makes at most one
\* connect attempt and sends at most one frame; a call whose connect failed
\* has sent no frame, and a call that failed is over, so that only a new
\* call connects again.
C15_NoRetries ==
    \A t \in Threads :
        th[t].fn \in {"read", "write", "is_open"} =>
            /\ th[t].connects <= 1
            /\ Len(th[t].log) <= 1
            /\ th[t].fn = "is_open" => th[t].log = <<>>
            /\ IsExc(th[t].out) => th[t].pc = "idle"
            /\ th[t].out = Raise("OSError", 0, "connect") => th[t].log = <<>>

\* a read whose one connect attempt failed: the error is its outcome
C15_Witness ==
    \E t \in Threads :
        /\ th[t].pc = "idle"
        /\ th[t].fn = "read"
        /\ th[t].out = Raise("OSError", 0, "connect")
        /\ th[t].connects = 1
        /\ th[t].log = <<>>

\* the step in which is_open returns to its caller
IsOpenReturns(t) == th[t].pc = "isopen_return" /\ th'[t].pc = "idle"

\* C16: is_open never raises; entered on a closed transport it makes one
\* connect attempt, passes over a connection error and returns the state
\* that results, True iff the transport is open now (flag set, socket
\* connected); entered on an open transport it returns True without
\* connecting.
C16_IsOpenReports ==
    [][\A t \in Threads :
          /\ (th[t].pc = "isopen_lock" /\ th'[t].pc # "isopen_lock")
                => (th'[t].pc = "open_connect" <=> ~inst[th[t].self].isopen)
          /\ IsOpenReturns(t) =>
                /\ IsOk(th'[t].out)
                /\ th'[t].out.v \in {PyBool(TRUE), PyBool(FALSE)}
                /\ th'[t].connects <= 1
                /\ th'[t].out.v = PyBool(TRUE)
                      <=> (inst'[th[t].self].isopen /\ socks'[th[t].self].state = "connected")
                /\ th'[t].connects = 0 => th'[t].out.v = PyBool(TRUE)]_vars

\* ------------------------------------------------------------------------
\* The numeric codec on its own (SpecCodec): every 16-bit value and a few
\* beyond encoded, every byte pair decoded
\* ------------------------------------------------------------------------

EncodeInputs == (0..65535) \cup {-32768, -1, 65536, 65537, 70000}

InitCodec ==
    /\ TransportInit
    /\ \/ \E v \in EncodeInputs : fin = [f |-> "encode", x |-> v]
       \/ \E lo \in 0..255 : \E hi \in 0..255 : fin = [f |-> "decode", x |-> <<lo, hi>>]
    /\ fout = None

\* to_2bite_signed(v), its two bytes read back by to_int16_unsigned, and
\* write('D500', v) as far as the frame
encode16 ==
    /\ Pending("encode")
    /\ LET enc == to_2bite_signed(fin.x)
       IN  fout' = [ enc |-> enc,
                     back |-> IF IsExc(enc) THEN enc
                              ELSE Ok(to_int16_unsigned(enc.v[2], enc.v[1])),
                     frame |-> Request(WriteCall(D500, PyInt(fin.x), FALSE)) ]
    /\ UNCHANGED <<connections, inst, lock, socks, mem, th, written, fin>>

\* to_int16_signed and to_int16_unsigned of the bytes (lo, hi)
decode16 ==
    /\ Pending("decode")
    /\ fout' = [ s |-> to_int16_signed(fin.x[2], fin.x[1]),
                 u |-> to_int16_unsigned(fin.x[2], fin.x[1]) ]
    /\ UNCHANGED <<connections, inst, lock, socks, mem, th, written, fin>>

NextCodec == encode16 \/ decode16

SpecCodec == InitCodec /\ [][NextCodec]_vars

Encoded == fin.f = "encode" /\ fout # None

\* C17: to_2bite_signed has no range check and wraps: for v outside
\* 0..65535 it returns the low and high byte of v mod 65536 without failing
\* (65536 gives (0, 0)), and the word write goes on to its frame.
C17_EncodeWraps ==
    (Encoded /\ fin.x \notin 0..65535) =>
        /\ fout.enc = Ok(<<(fin.x % 65536) % 256, (fin.x % 65536) \div 256>>)
        /\ IsOk(fout.frame)

\* C18: for every v in 0..65535 to_2bite_signed(v) is (v mod 256, v div 256)
\* and to_int16_unsigned of these two bytes is v again.
C18_EncodeDecodeRoundTrip ==
    (Encoded /\ fin.x \in 0..65535) =>
        /\ fout.enc = Ok(<<fin.x % 256, fin.x \div 256>>)
        /\ fout.back = Ok(fin.x)

\* 65280 encoded as (0, 255) and read back
C18_Witness ==
    /\ fin.f = "encode"
    /\ fin.x = 65280
    /\ fout # None
    /\ fout.enc = Ok(<<0, 255>>)
    /\ fout.back = Ok(65280)

\* C19: for every byte pair (lo, hi) to_int16_signed equals to_int16_unsigned
\* when bit 7 of hi is 0 and to_int16_unsigned - 65536 when it is 1, so the
\* signed result lies in -32768..32767.
C19_SignedVersusUnsigned ==
    (fin.f = "decode" /\ fout # None) =>
        /\ fout.u = 256 * fin.x[2] + fin.x[1]
        /\ fin.x[2] < 128 => fout.s = fout.u
        /\ fin.x[2] >= 128 => fout.s = fout.u - 65536
        /\ fout.s \in -32768..32767

\* (0x00, 0xFF): 65280 unsigned, -256 signed
C19_Witness ==
    /\ fin.f = "decode"
    /\ fin.x = <<0, 255>>
    /\ fout # None
    /\ fout.s = -256
    /\ fout.u = 65280

\* ------------------------------------------------------------------------
\* Concurrent callers whose steps are taken (SpecLive): once a call is
\* made, each of its steps happens if it stays possible; connect, sendall
\* and recv return or time out, and a free lock is given to a thread that
\* keeps waiting for it
\* ------------------------------------------------------------------------

\* the steps of a thread inside a public call
Proceeds(t) ==
    \/ gc_store(t)
    \/ gc_return(t)
    \/ send_lock(t)
    \/ open_connect(t)
    \/ open_flag(t)
    \/ send_sendall(t)
    \/ send_recv(t, Faults)
    \/ close_sock(t)
    \/ isopen_lock(t)
    \/ isopen_return(t)

\* public calls the threads make before they stop
MaxLiveCalls == 4

Invoked(t) ==
    \/ \E h \in SpecHosts : get_connection(t, h, MaxLiveCalls)
    \/ \E c \in Calls : read_write(t, c, MaxLiveCalls)
    \/ close(t, MaxLiveCalls)
    \/ is_open(t, MaxLiveCalls)

NextLive == \E t \in Threads : Invoked(t) \/ Proceeds(t)

SpecLive == Init /\ [][NextLive]_vars /\ \A t \in Threads : WF_vars(Proceeds(t))

\* a thread at `with self.__lock`
AtLock(t) == th[t].pc \in {"send_lock", "isopen_lock"}

ProtocolErrorStep(t) ==
    /\ InSend(t)
    /\ th[t].pc = "send_recv"
    /\ th'[t].pc # "send_recv"
    /\ th'[t].result # NoResult
    /\ Len(th'[t].result) >= 11
    /\ ErrorIndicated(th'[t].result)

\* the outcome of a call is an error code of the controller
ProtocolError(o) ==
    /\ IsExc(o)
    /\ o.e = "Exception"
    /\ o.code # 0

\* a thread that is about to enter __send or is_open on instance i
Entering(u, i) == th[u].pc \in {"send_lock", "isopen_lock"} /\ th[u].self = i

\* C21: an exchange that ends in a protocol error (an error code in a
\* response of at least 11 bytes) raises that error to its caller and leaves
\* the transport as it was: the flag of every instance is unchanged, the
\* socket is still the connected one and is not closed, and on a transport
\* that was open a call that enters next goes on to sendall (or to is_open's
\* return) on that connection without connecting.
C21_ProtocolErrorKeepsOpen ==
    [][\A t \in Threads :
          ProtocolErrorStep(t) =>
              /\ th'[t].pc = "idle"
              /\ ProtocolError(th'[t].out)
              /\ inst' = inst
              /\ socks[th[t].self].state = "connected"
              /\ socks'[th[t].self].state = "connected"
              /\ lock'.owner # t
              /\ inst[th[t].self].isopen =>
                    \A u \in Threads :
                        (Entering(u, th[t].self))' =>
                            (/\ ENABLED (Enter(u) /\ th'[u].pc = AfterOpen(u))
                             /\ ~ENABLED (Enter(u) /\ th'[u].pc = "open_connect"))']_vars

\* a read ended with the controller's error code and left the transport
\* open, and the other thread's call that followed is waiting for its
\* response on the same connection, having made no connect
C21_Witness ==
    \E t, u \in Threads :
        /\ t # u
        /\ th[t].pc = "idle"
        /\ th[t].fn = "read"
        /\ th[t].result # NoResult
        /\ Len(th[t].result) >= 11
        /\ ProtocolError(th[t].out)
        /\ th[u].self = th[t].self
        /\ th[u].pc = "send_recv"
        /\ th[u].connects = 0
        /\ Self(t).isopen
        /\ Client(t).state = "connected"

\* ------------------------------------------------------------------------
\* The flag and the socket under close() calls that take no lock (Spec)
\* ------------------------------------------------------------------------

\* the instance holds a socket that connected and that nobody closed
HoldsConnectedSocket(i) == socks[i].state = "connected"

\* C22: in every reachable state an instance whose flag is True holds a
\* connected socket that has not been closed, whatever the interleaving,
\* close() calls of one thread inside another thread's __open or __send
\* included.
C22_OpenFlagImpliesConnected ==
    \A i \in 1..Len(inst) : inst[i].isopen => HoldsConnectedSocket(i)

====
